---- MODULE Spec2Model ----
(***************************************************************************)
(* A model of the dnsdisc tree walker (src/src/lib.rs): resolve_tree,      *)
(* resolve_branch, domain_is_allowed and RootRecord::verify, run against a *)
(* backend whose answers are chosen when a name is first asked for.        *)
(*                                                                         *)
(* Spec and LiveSpec are the walk of one query.  VerifySpec applies the    *)
(* pure function verify to inputs drawn in its initial states; the         *)
(* variable probe holds the input and the result of such a call and is     *)
(* idle during a walk.  CodecSpec does the same for the text form of a     *)
(* record (Display and FromStr of DnsRecord), BackendSpec for get_record   *)
(* of the backends of src/src/backend.                                     *)
(*                                                                         *)
(* Identifiers.  A task is named by the path of subdomain hashes that led  *)
(* to it (a sequence of numbers); the stream returned by query is the tree *)
(* <<>>, and the tree a Link task walks carries the task's path.  A        *)
(* channel is named <<owner, side>>: the two branch resolutions of tree p  *)
(* are <<p, "link">> and <<p, "enr">>, the nested one of a Branch task t   *)
(* is <<t, "branch">>.                                                     *)
(***************************************************************************)
EXTENDS Integers, Sequences, FiniteSets, TLC

VARIABLES cfg, zone, trees, tasks, chans, out, consumer, probe

vars == <<cfg, zone, trees, tasks, chans, out, consumer, probe>>

----------------------------------------------------------------------------
(* Bounds of the input family *)

\* subdomain hashes are 1..MaxHash; a root names 1 (enr_root) and 2 (link_root)
MaxHash == 4
\* root sequence numbers are 1..MaxSeq
MaxSeq == 2

\* capacity of the channel of one branch resolution: mpsc::channel(1)
ChannelCapacity == 1

EntryHost == "h0"
LinkedHost == "h1"
Hosts == {EntryHost, LinkedHost}
Keys == {"k0", "k1"}
NoKey == "none"
\* what key recovery yields for a message the signature was not made over
GarbageKey == "kx"
NoSeq == -1
EnrRootHash == 1
LinkRootHash == 2
Hashes == 1..MaxHash

----------------------------------------------------------------------------
(* Records: DnsRecord, and the two other answers of Backend::get_record *)

UnsignedText(e, l, seq) == <<"enrtree-root:v1", e, l, seq>>

NoSig == [key |-> NoKey, text |-> <<>>]

Rec(type) ==
    [type |-> type, enr_root |-> 0, link_root |-> 0, sequence |-> 0,
     signature |-> NoSig, public_key |-> NoKey, domain |-> "none",
     children |-> {}, record |-> <<>>]

\* Ok(None)
NoRecord == Rec("None")
\* Err(e)
BackendError == Rec("Err")

RootRec(e, l, seq, sig) ==
    [Rec("Root") EXCEPT !.enr_root = e, !.link_root = l, !.sequence = seq,
                        !.signature = sig]

LinkRec(pk, domain) == [Rec("Link") EXCEPT !.public_key = pk, !.domain = domain]

BranchRec(children) == [Rec("Branch") EXCEPT !.children = children]

\* the ENR published at a name is identified by that name
EnrRec(name) == [Rec("Enr") EXCEPT !.record = name]

\* a signature made with the key pair of k over the UnsignedRoot text
Sign(k, e, l, seq) == [key |-> k, text |-> UnsignedText(e, l, seq)]

----------------------------------------------------------------------------
(* Stream items: StdResult<Enr> *)

OkItem(enr) == [ok |-> TRUE, enr |-> enr, err |-> ""]
ErrItem(e) == [ok |-> FALSE, enr |-> <<>>, err |-> e]
NoItem == [ok |-> FALSE, enr |-> <<>>, err |-> ""]

ProtocolErrors == {"Unexpected link record in ENR tree",
                   "Unexpected ENR record in link tree",
                   "Unexpected root record"}

----------------------------------------------------------------------------
(* Whitelist: Option<Arc<HashMap<String, VerifyKey>>> *)

NoWhitelist == [present |-> FALSE, map |-> {}]
Whitelist(m) == [present |-> TRUE, map |-> m]

Whitelists == {NoWhitelist, Whitelist({}), Whitelist({<<LinkedHost, "k1">>})}

\* domain_is_allowed that looks the domain up and never compares the key
domain_is_allowed_AnyKey(whitelist, domain, public_key) ==
    IF ~whitelist.present THEN TRUE
    ELSE \E e \in whitelist.map : e[1] = domain

\* domain_is_allowed that takes an absent whitelist for an empty one
domain_is_allowed_AbsentDenies(whitelist, domain, public_key) ==
    \E e \in whitelist.map : e[1] = domain /\ e[2] = public_key

domain_is_allowed(whitelist, domain, public_key) ==
    IF ~whitelist.present THEN TRUE
    ELSE \E e \in whitelist.map : e[1] = domain /\ e[2] = public_key

\* BranchKind
KindEnr == [tag |-> "Enr", remote_whitelist |-> NoWhitelist]
KindLink(wl) == [tag |-> "Link", remote_whitelist |-> wl]

----------------------------------------------------------------------------
(* RootRecord::verify *)

\* Display of UnsignedRoot
UnsignedRootToString(r) == UnsignedText(r.enr_root, r.link_root, r.sequence)

\* Display of RootRecord: the UnsignedRoot text followed by " sig=<signature>"
RootRecordToString(r) == UnsignedRootToString(r) \o <<"sig", r.signature>>

\* Signature::recover_verify_key: the signer's key when msg is the text that
\* was signed, some unrelated key otherwise
recover_verify_key(signature, msg) ==
    IF signature.text = msg THEN signature.key ELSE GarbageKey

\* self.to_string() on a RootRecord resolves to the Display of RootRecord
\* (the record's own impl comes before the Deref to UnsignedRoot), so the
\* message handed to key recovery is the text with its " sig=" field
verify(r, pk) == recover_verify_key(r.signature, RootRecordToString(r)) = pk

----------------------------------------------------------------------------
(* The backend: the records a name may hold, fixed at the first lookup *)

RootName(host) == <<host, 0>>
ChildName(host, subdomain) == <<host, subdomain>>

\* the key pair that publishes the tree of a host
SignerOf(host) == IF host = EntryHost THEN "k0" ELSE "k1"

\* the labels below the two subtree roots
FirstLabel == LinkRootHash + 1
OtherLabels == (FirstLabel + 1)..MaxHash

\* the zone is a DAG: the record of a subtree root may list FirstLabel alone
\* or with the label after it, the record at FirstLabel one other label
BranchOptions(c) ==
    {BranchRec({})} \cup
    (IF c < FirstLabel
     THEN {BranchRec({FirstLabel}), BranchRec({FirstLabel, FirstLabel + 1})}
     ELSE IF c = FirstLabel THEN {BranchRec({d}) : d \in OtherLabels} ELSE {})

RootOptions(host) ==
    {NoRecord, BackendError, EnrRec(RootName(host))}
    \cup {RootRec(EnrRootHash, LinkRootHash, seq,
                  Sign(SignerOf(host), EnrRootHash, LinkRootHash, seq)) :
             seq \in 1..MaxSeq}

ChildOptions(host, c) ==
    {NoRecord, BackendError, EnrRec(ChildName(host, c)),
     RootRec(EnrRootHash, LinkRootHash, 1,
             Sign(SignerOf(host), EnrRootHash, LinkRootHash, 1))}
    \cup (IF host = EntryHost THEN {LinkRec(k, LinkedHost) : k \in Keys} ELSE {})
    \cup BranchOptions(c)

Options(name) ==
    IF name[2] = 0 THEN RootOptions(name[1]) ELSE ChildOptions(name[1], name[2])

\* the answers get_record(name) may give in this state
Answers(name) == IF name \in DOMAIN zone THEN {zone[name]} ELSE Options(name)

Remember(name, r) == IF name \in DOMAIN zone THEN zone ELSE (name :> r) @@ zone

----------------------------------------------------------------------------
(* Channels and tasks *)

Last(s) == s[Len(s)]

LiveTask(t) == tasks[t].pc \notin {"done", "aborted"}

\* Senders when a clone of the sender outlives the tasks (the channel never
\* closes)
Senders_TxKept(c) == {t \in DOMAIN tasks : tasks[t].chan = c}

\* the tasks that still hold a clone of the channel's sender
Senders(c) == {t \in DOMAIN tasks : tasks[t].chan = c /\ LiveTask(t)}

NewChan == [buf |-> <<>>, rx |-> TRUE]

\* the receivers of every channel of owner p are dropped
DropOwned(ch, p) ==
    [c \in DOMAIN ch |->
        IF c[1] = p THEN [buf |-> <<>>, rx |-> FALSE] ELSE ch[c]]

NewTask(host, subdomain, kind, chan) ==
    [host |-> host, subdomain |-> subdomain, kind |-> kind, chan |-> chan,
     pc |-> "spawned", asked |-> FALSE, record |-> Rec("Unfetched"),
     pending |-> NoItem, late |-> (consumer = "dropped")]

\* resolve_branch that resolves one child after the other: only the first
\* child is spawned
Spawned_OneAtATime(prefix, host, children, kind, chan) ==
    [t \in {Append(prefix, c) : c \in {d \in children : \A e \in children : d <= e}} |->
        NewTask(host, Last(t), kind, chan)]

\* resolve_branch: one spawned task per child, all sending to one channel
Spawned(prefix, host, children, kind, chan) ==
    [t \in {Append(prefix, c) : c \in children} |->
        NewTask(host, Last(t), kind, chan)]

\* NewTree that walks the host without a key to verify its root against
NewTree_Unverified(host, pk, seen, wl, pc) ==
    [host |-> host, public_key |-> NoKey, seen_sequence |-> seen,
     remote_whitelist |-> wl, pc |-> pc]

NewTree(host, pk, seen, wl, pc) ==
    [host |-> host, public_key |-> pk, seen_sequence |-> seen,
     remote_whitelist |-> wl, pc |-> pc]

----------------------------------------------------------------------------
(* resolve_tree: the try_stream of one tree.  Tree <<>> is polled by the   *)
(* consumer; the tree of a Link task is polled by that task.               *)

\* probe: a call of a pure function, its arguments and its result
NoProbe == [root |-> NoRecord, pk |-> NoKey, called |-> FALSE, result |-> FALSE]

Init ==
    /\ probe = NoProbe
    /\ cfg \in [public_key : {NoKey} \cup Keys, seen_sequence : {NoSeq, MaxSeq - 1},
                remote_whitelist : Whitelists]
    /\ zone = <<>>
    /\ trees = (<<>> :> NewTree(EntryHost, cfg.public_key, cfg.seen_sequence,
                                cfg.remote_whitelist, "init"))
    /\ tasks = <<>>
    /\ chans = <<>>
    /\ out = <<>>
    /\ consumer = "reading"

\* the owner of tree p is polling it
Polled(p) ==
    IF p = <<>> THEN consumer = "reading"
    ELSE tasks[p].pc = "tree" /\ tasks[p].pending = NoItem

\* RootOutcome without the seen_sequence test
RootOutcome_NoSeqCheck(tree, r) ==
    CASE r.type = "None" -> "empty"
      [] r.type = "Err" -> "backend"
      [] r.type = "Root" ->
            IF tree.public_key # NoKey /\ ~verify(r, tree.public_key)
            THEN "Public key does not match"
            ELSE "accept"
      [] OTHER -> "Expected root"

\* RootOutcome without the signature check
RootOutcome_NoVerify(tree, r) ==
    CASE r.type = "None" -> "empty"
      [] r.type = "Err" -> "backend"
      [] r.type = "Root" ->
            IF tree.seen_sequence # NoSeq /\ r.sequence <= tree.seen_sequence
            THEN "stale"
            ELSE "accept"
      [] OTHER -> "Expected root"

\* RootOutcome that fails the stream when the host has no record
RootOutcome_AbsentFails(tree, r) ==
    CASE r.type = "None" -> "Expected root"
      [] r.type = "Err" -> "backend"
      [] r.type = "Root" ->
            IF tree.public_key # NoKey /\ ~verify(r, tree.public_key)
            THEN "Public key does not match"
            ELSE IF tree.seen_sequence # NoSeq /\ r.sequence <= tree.seen_sequence
            THEN "stale"
            ELSE "accept"
      [] OTHER -> "Expected root"

\* RootOutcome that takes a root of sequence = seen_sequence for new
RootOutcome_StrictlyOlder(tree, r) ==
    CASE r.type = "None" -> "empty"
      [] r.type = "Err" -> "backend"
      [] r.type = "Root" ->
            IF tree.public_key # NoKey /\ ~verify(r, tree.public_key)
            THEN "Public key does not match"
            ELSE IF tree.seen_sequence # NoSeq /\ r.sequence < tree.seen_sequence
            THEN "stale"
            ELSE "accept"
      [] OTHER -> "Expected root"

\* what the tree does with the answer for its host: "empty", "stale",
\* "accept", or the error it fails with
RootOutcome(tree, r) ==
    CASE r.type = "None" -> "empty"
      [] r.type = "Err" -> "backend"
      [] r.type = "Root" ->
            IF tree.public_key # NoKey /\ ~verify(r, tree.public_key)
            THEN "Public key does not match"
            ELSE IF tree.seen_sequence # NoSeq /\ r.sequence <= tree.seen_sequence
            THEN "stale"
            ELSE "accept"
      [] OTHER -> "Expected root"

\* the stream of tree p ends without a further item
TreeEnd(p, ch) ==
    /\ trees' = [trees EXCEPT ![p].pc = "done"]
    /\ chans' = DropOwned(ch, p)
    /\ out' = out
    /\ IF p = <<>>
       THEN consumer' = "ended" /\ tasks' = tasks
       ELSE consumer' = consumer /\ tasks' = [tasks EXCEPT ![p].pc = "done"]

\* TreeFail of a stream that hands a failure of its branches on like any
\* other item and keeps reading
TreeFail_KeepsReading(p, e, ch) ==
    /\ consumer' = consumer
    /\ IF trees[p].pc = "fetching"
       THEN /\ chans' = DropOwned(ch, p)
            /\ IF p = <<>>
               THEN /\ trees' = [trees EXCEPT ![p].pc = "failed"]
                    /\ out' = Append(out, ErrItem(e))
                    /\ tasks' = tasks
               ELSE /\ trees' = [trees EXCEPT ![p].pc = "done"]
                    /\ out' = out
                    /\ tasks' = [tasks EXCEPT ![p].pending = ErrItem(e), ![p].pc = "final"]
       ELSE /\ trees' = trees
            /\ chans' = ch
            /\ IF p = <<>>
               THEN out' = Append(out, ErrItem(e)) /\ tasks' = tasks
               ELSE out' = out /\ tasks' = [tasks EXCEPT ![p].pending = ErrItem(e)]

\* the stream of tree p yields Err(e): the consumer of <<>> holds the failed
\* stream until it polls again; a task leaves its loop and drops the stream
TreeFail(p, e, ch) ==
    /\ consumer' = consumer
    /\ IF p = <<>>
       THEN /\ trees' = [trees EXCEPT ![p].pc = "failed"]
            /\ out' = Append(out, ErrItem(e))
            /\ chans' = ch
            /\ tasks' = tasks
       ELSE /\ trees' = [trees EXCEPT ![p].pc = "done"]
            /\ out' = out
            /\ chans' = DropOwned(ch, p)
            /\ tasks' = [tasks EXCEPT ![p].pending = ErrItem(e), ![p].pc = "final"]

\* the stream of tree p yields Ok(enr)
TreeYield(p, item, ch) ==
    /\ consumer' = consumer
    /\ trees' = trees
    /\ chans' = ch
    /\ IF p = <<>>
       THEN out' = Append(out, item) /\ tasks' = tasks
       ELSE out' = out /\ tasks' = [tasks EXCEPT ![p].pending = item]

\* tree p starts the branch resolution of one of its two roots
TreeLaunch(p, side, hash, kind) ==
    /\ trees' = [trees EXCEPT ![p].pc = side]
    /\ tasks' = Spawned(p, trees[p].host, {hash}, kind, <<p, side>>) @@ tasks
    /\ chans' = (<<p, side>> :> NewChan) @@ chans
    /\ UNCHANGED <<out, consumer>>

\* the first poll of the stream returned by query: get_record(host) is issued
QueryPoll ==
    /\ trees[<<>>].pc = "init"
    /\ consumer = "reading"
    /\ trees' = [trees EXCEPT ![<<>>].pc = "fetching"]
    /\ UNCHANGED <<probe, cfg, zone, tasks, chans, out, consumer>>

\* the backend answers the lookup of the tree's host
TreeRoot(p) ==
    /\ trees[p].pc = "fetching"
    /\ Polled(p)
    /\ \E r \in Answers(RootName(trees[p].host)) :
        /\ zone' = Remember(RootName(trees[p].host), r)
        /\ LET o == RootOutcome(trees[p], r) IN
           CASE o \in {"empty", "stale"} -> TreeEnd(p, chans)
             [] o = "accept" ->
                   TreeLaunch(p, "link", r.link_root,
                              KindLink(trees[p].remote_whitelist))
             [] OTHER -> TreeFail(p, o, chans)
    /\ UNCHANGED <<probe, cfg>>

\* the tree takes the next item of the branch resolution it is draining
TreeRecv(p) ==
    /\ trees[p].pc \in {"link", "enr"}
    /\ Polled(p)
    /\ LET c == <<p, trees[p].pc>> IN
       IF chans[c].buf # <<>>
       THEN LET item == Head(chans[c].buf)
                ch == [chans EXCEPT ![c].buf = Tail(@)] IN
            IF item.ok THEN TreeYield(p, item, ch) ELSE TreeFail(p, item.err, ch)
       ELSE /\ Senders(c) = {}
            /\ IF trees[p].pc = "link"
               THEN TreeLaunch(p, "enr", zone[RootName(trees[p].host)].enr_root,
                               KindEnr)
               ELSE TreeEnd(p, chans)
    /\ UNCHANGED <<probe, cfg, zone>>

\* the consumer polls the failed stream once more: it ends
QueryFinish ==
    /\ trees[<<>>].pc = "failed"
    /\ consumer = "reading"
    /\ TreeEnd(<<>>, chans)
    /\ UNCHANGED <<probe, cfg, zone>>

\* the consumer drops the stream returned by query
ConsumerDrop ==
    /\ consumer = "reading"
    /\ consumer' = "dropped"
    /\ trees' = [trees EXCEPT ![<<>>].pc = "dropped"]
    /\ chans' = DropOwned(chans, <<>>)
    /\ UNCHANGED <<probe, cfg, zone, tasks, out>>

----------------------------------------------------------------------------
(* resolve_branch: the task spawned for one child *)

\* Dispatch that turns an absent child into a failure
Dispatch_EmptyFails(kind, r) ==
    CASE r.type = "None" -> "No record"
      [] r.type = "Err" -> "backend"
      [] r.type = "Branch" -> "branch"
      [] r.type = "Link" ->
            IF kind.tag = "Link"
            THEN IF domain_is_allowed(kind.remote_whitelist, r.domain, r.public_key)
                 THEN "follow" ELSE "skip"
            ELSE "Unexpected link record in ENR tree"
      [] r.type = "Enr" ->
            IF kind.tag = "Enr" THEN "emit"
            ELSE "Unexpected ENR record in link tree"
      [] OTHER -> "Unexpected root record"

\* Dispatch that takes a failed lookup for an absent record
Dispatch_BackendSwallowed(kind, r) ==
    CASE r.type \in {"None", "Err"} -> "empty"
      [] r.type = "Branch" -> "branch"
      [] r.type = "Link" ->
            IF kind.tag = "Link"
            THEN IF domain_is_allowed(kind.remote_whitelist, r.domain, r.public_key)
                 THEN "follow" ELSE "skip"
            ELSE "Unexpected link record in ENR tree"
      [] r.type = "Enr" ->
            IF kind.tag = "Enr" THEN "emit"
            ELSE "Unexpected ENR record in link tree"
      [] OTHER -> "Unexpected root record"

\* what the task does with the record of its child: "empty" (warn and end),
\* "branch", "follow" (walk the linked tree), "skip" (forbidden domain),
\* "emit", or the error it sends
Dispatch(kind, r) ==
    CASE r.type = "None" -> "empty"
      [] r.type = "Err" -> "backend"
      [] r.type = "Branch" -> "branch"
      [] r.type = "Link" ->
            IF kind.tag = "Link"
            THEN IF domain_is_allowed(kind.remote_whitelist, r.domain, r.public_key)
                 THEN "follow" ELSE "skip"
            ELSE "Unexpected link record in ENR tree"
      [] r.type = "Enr" ->
            IF kind.tag = "Enr" THEN "emit"
            ELSE "Unexpected ENR record in link tree"
      [] OTHER -> "Unexpected root record"

\* the whitelist handed to the tree of a followed link
CarriedWhitelist(kind) == kind.remote_whitelist

\* a spawned task is scheduled and issues get_record(fqdn)
TaskFetch(t) ==
    /\ tasks[t].pc = "spawned"
    /\ tasks' = [tasks EXCEPT ![t].pc = "fetching", ![t].asked = TRUE]
    /\ UNCHANGED <<probe, cfg, zone, trees, chans, out, consumer>>

\* the backend answers the lookup of the child; the task runs on to its next
\* suspension point: for a followed link that is the lookup of the linked
\* root, issued by the first poll of the nested resolve_tree
TaskResult(t) ==
    /\ tasks[t].pc = "fetching"
    /\ LET name == ChildName(tasks[t].host, tasks[t].subdomain) IN
       \E r \in Answers(name) :
        /\ zone' = Remember(name, r)
        /\ LET d == Dispatch(tasks[t].kind, r)
               got == [tasks EXCEPT ![t].record = r] IN
           CASE d \in {"empty", "skip"} ->
                   /\ tasks' = [got EXCEPT ![t].pc = "done"]
                   /\ UNCHANGED <<trees, chans>>
             [] d = "branch" ->
                   /\ tasks' = Spawned(t, tasks[t].host, r.children, tasks[t].kind,
                                       <<t, "branch">>)
                               @@ [got EXCEPT ![t].pc = "branch"]
                   /\ chans' = (<<t, "branch">> :> NewChan) @@ chans
                   /\ UNCHANGED trees
             [] d = "follow" ->
                   /\ tasks' = [got EXCEPT ![t].pc = "tree"]
                   /\ trees' = (t :> NewTree(r.domain, r.public_key, NoSeq,
                                             CarriedWhitelist(tasks[t].kind),
                                             "fetching")) @@ trees
                   /\ UNCHANGED chans
             [] d = "emit" ->
                   /\ tasks' = [got EXCEPT ![t].pc = "final",
                                           ![t].pending = OkItem(r.record)]
                   /\ UNCHANGED <<trees, chans>>
             [] OTHER ->
                   /\ tasks' = [got EXCEPT ![t].pc = "final",
                                           ![t].pending = ErrItem(d)]
                   /\ UNCHANGED <<trees, chans>>
    /\ UNCHANGED <<probe, cfg, out, consumer>>

\* a Branch task takes the next item of its nested branch resolution
TaskRecv(t) ==
    /\ tasks[t].pc = "branch"
    /\ tasks[t].pending = NoItem
    /\ LET c == <<t, "branch">> IN
       IF chans[c].buf # <<>>
       THEN LET item == Head(chans[c].buf) IN
            IF item.ok
            THEN /\ tasks' = [tasks EXCEPT ![t].pending = item]
                 /\ chans' = [chans EXCEPT ![c].buf = Tail(@)]
            ELSE /\ tasks' = [tasks EXCEPT ![t].pending = item, ![t].pc = "final"]
                 /\ chans' = DropOwned(chans, t)
       ELSE /\ Senders(c) = {}
            /\ tasks' = [tasks EXCEPT ![t].pc = "done"]
            /\ chans' = DropOwned(chans, t)
    /\ UNCHANGED <<probe, cfg, zone, trees, out, consumer>>

\* tx.send(item).await: completes when the channel has room, or at once with
\* an error (ignored) when the receiver is gone
TaskSend(t) ==
    /\ tasks[t].pc \in {"branch", "tree", "final"}
    /\ tasks[t].pending # NoItem
    /\ LET c == tasks[t].chan IN
       IF chans[c].rx
       THEN /\ Len(chans[c].buf) < ChannelCapacity
            /\ chans' = [chans EXCEPT ![c].buf = Append(@, tasks[t].pending)]
       ELSE chans' = chans
    /\ tasks' = [tasks EXCEPT ![t].pending = NoItem,
                              ![t].pc = IF @ = "final" THEN "done" ELSE @]
    /\ UNCHANGED <<probe, cfg, zone, trees, out, consumer>>

----------------------------------------------------------------------------
(* TaskGroup: shared through Arc clones, it aborts its tasks when the last *)
(* clone is dropped                                                        *)

\* the task's future still owns a clone of the Arc<TaskGroup>
TaskHoldsGroup(t) ==
    \/ tasks[t].pc \in {"spawned", "fetching"}
    \/ tasks[t].pc = "final" /\ tasks[t].pending.ok

\* the try_stream of the tree owns one from its first poll to its end
TreeHoldsGroup(p) == trees[p].pc \in {"fetching", "link", "enr", "failed"}

GroupHolders ==
    {t \in DOMAIN tasks : TaskHoldsGroup(t)} \cup {p \in DOMAIN trees : TreeHoldsGroup(p)}

Abort ==
    /\ GroupHolders = {}
    /\ \E t \in DOMAIN tasks : LiveTask(t)
    /\ tasks' = [t \in DOMAIN tasks |->
                    IF LiveTask(t)
                    THEN [tasks[t] EXCEPT !.pc = "aborted", !.pending = NoItem]
                    ELSE tasks[t]]
    /\ chans' = [c \in DOMAIN chans |->
                    IF c[1] # <<>> /\ LiveTask(c[1])
                    THEN [buf |-> <<>>, rx |-> FALSE] ELSE chans[c]]
    /\ UNCHANGED <<probe, cfg, zone, trees, out, consumer>>

----------------------------------------------------------------------------

Next ==
    \/ QueryPoll
    \/ QueryFinish
    \/ ConsumerDrop
    \/ Abort
    \/ \E p \in DOMAIN trees : TreeRoot(p)
    \/ \E p \in DOMAIN trees : TreeRecv(p)
    \/ \E t \in DOMAIN tasks : TaskFetch(t)
    \/ \E t \in DOMAIN tasks : TaskResult(t)
    \/ \E t \in DOMAIN tasks : TaskRecv(t)
    \/ \E t \in DOMAIN tasks : TaskSend(t)

Spec == Init /\ [][Next]_vars

\* the walk under a consumer that keeps reading the stream to its end
LiveNext ==
    \/ QueryPoll
    \/ QueryFinish
    \/ Abort
    \/ \E p \in DOMAIN trees : TreeRoot(p)
    \/ \E p \in DOMAIN trees : TreeRecv(p)
    \/ \E t \in DOMAIN tasks : TaskFetch(t)
    \/ \E t \in DOMAIN tasks : TaskResult(t)
    \/ \E t \in DOMAIN tasks : TaskRecv(t)
    \/ \E t \in DOMAIN tasks : TaskSend(t)

\* the runtime runs every ready task, the backend answers every lookup and
\* the consumer polls again: the walk does not stop while a step is possible
LiveSpec == Init /\ [][LiveNext]_vars /\ WF_vars(LiveNext)

----------------------------------------------------------------------------
(* RootRecord::verify applied to signed and tampered roots *)

\* every root record over the hashes and sequences of the model, carrying a
\* signature made by some key over the UnsignedRoot text of some root: the
\* honestly signed roots and those with e, l, seq or sig changed afterwards
ProbeRoots ==
    {RootRec(e, l, seq, Sign(k, se, sl, sseq)) :
        e \in Hashes, l \in Hashes, seq \in 1..MaxSeq, k \in Keys,
        se \in Hashes, sl \in Hashes, sseq \in 1..MaxSeq}

VerifyInit ==
    /\ probe \in [root : ProbeRoots, pk : Keys, called : {FALSE}, result : {FALSE}]
    /\ cfg = [public_key |-> NoKey, seen_sequence |-> NoSeq,
              remote_whitelist |-> NoWhitelist]
    /\ zone = <<>>
    /\ trees = <<>>
    /\ tasks = <<>>
    /\ chans = <<>>
    /\ out = <<>>
    /\ consumer = "reading"

\* root.verify(&pk)
VerifyCall ==
    /\ ~probe.called
    /\ probe' = [probe EXCEPT !.called = TRUE, !.result = verify(probe.root, probe.pk)]
    /\ UNCHANGED <<cfg, zone, trees, tasks, chans, out, consumer>>

VerifyNext == VerifyCall

VerifySpec == VerifyInit /\ [][VerifyNext]_vars

----------------------------------------------------------------------------
(* The record codec: Display and FromStr of DnsRecord.  A text is a        *)
(* sequence of symbols: a prefix or a key ("enrtree-root:v1", "e=") is one *)
(* symbol, everything else is one symbol per character.                    *)

BASE32_HASH_LEN == 26
ROOT_PREFIX == "enrtree-root:v1"
LINK_PREFIX == "enrtree://"
BRANCH_PREFIX == "enrtree-branch:"
ENR_PREFIX == "enr:"

\* the bytes of a recoverable signature, and the base64 symbols that carry
\* them
SignatureBytes == 65
SignatureSymbols == (SignatureBytes * 8 + 5) \div 6

\* the number of tokens of a branch text
MaxTokens == 2

RECURSIVE Repeat(_, _)
Repeat(c, n) == IF n = 0 THEN <<>> ELSE <<c>> \o Repeat(c, n - 1)

\* str::split: the pieces between the occurrences of sep, empty ones included
RECURSIVE Split(_, _)
Split(s, sep) ==
    IF \E i \in 1..Len(s) : s[i] = sep
    THEN LET i == CHOOSE i \in 1..Len(s) :
                    s[i] = sep /\ \A j \in 1..(i - 1) : s[j] # sep
         IN <<SubSeq(s, 1, i - 1)>> \o Split(SubSeq(s, i + 1, Len(s)), sep)
    ELSE <<s>>

RECURSIVE Join(_, _)
Join(pieces, sep) ==
    IF pieces = <<>> THEN <<>>
    ELSE IF Len(pieces) = 1 THEN pieces[1]
    ELSE pieces[1] \o <<sep>> \o Join(Tail(pieces), sep)

RECURSIVE TrimStart(_)
TrimStart(s) == IF s # <<>> /\ Head(s) = " " THEN TrimStart(Tail(s)) ELSE s

RECURSIVE TrimEnd(_)
TrimEnd(s) ==
    IF s # <<>> /\ s[Len(s)] = " " THEN TrimEnd(SubSeq(s, 1, Len(s) - 1)) ELSE s

\* str::trim
Trim(s) == TrimEnd(TrimStart(s))

NonEmpty(piece) == piece # <<>>

\* str::split_whitespace
SplitWhitespace(s) == SelectSeq(Split(s, " "), NonEmpty)

\* the elements of a sequence
Range(s) == {s[i] : i \in 1..Len(s)}

\* the result of a conversion that failed
Failed == [ok |-> FALSE, val |-> <<>>]
Done(v) == [ok |-> TRUE, val |-> v]

\* Base32Hash is ArrayString<[u8; 26]>: its from_str takes any string that
\* fits the capacity
ParseHash(token) == IF Len(token) <= BASE32_HASH_LEN THEN Done(token) ELSE Failed

Digits == <<"0", "1", "2", "3", "4", "5", "6", "7", "8", "9">>
IsDigit(c) == \E d \in 1..Len(Digits) : Digits[d] = c
DigitValue(c) == (CHOOSE d \in 1..Len(Digits) : Digits[d] = c) - 1

RECURSIVE DecimalValue(_)
DecimalValue(digits) ==
    IF digits = <<>> THEN 0
    ELSE 10 * DecimalValue(SubSeq(digits, 1, Len(digits) - 1))
         + DigitValue(digits[Len(digits)])

\* usize::from_str: decimal digits after an optional "+"
ParseUsize(chars) ==
    LET digits == IF chars # <<>> /\ Head(chars) = "+" THEN Tail(chars) ELSE chars IN
    IF digits # <<>> /\ \A c \in Range(digits) : IsDigit(c)
    THEN Done(DecimalValue(digits)) ELSE Failed

\* Display of usize
RECURSIVE FormatUsize(_)
FormatUsize(n) ==
    IF n < 10 THEN <<Digits[n + 1]>>
    ELSE FormatUsize(n \div 10) \o <<Digits[(n % 10) + 1]>>

\* the 6-bit values of the family, the symbol each has in the standard
\* base64 alphabet and in the URL-safe one, and the padding character
Sextets == {0, 4, 62, 63}
StdSymbol(v) == CASE v = 0 -> "A" [] v = 4 -> "E" [] v = 62 -> "+" [] v = 63 -> "/"
UrlSymbol(v) == CASE v = 0 -> "A" [] v = 4 -> "E" [] v = 62 -> "-" [] v = 63 -> "_"
Padding == "="

\* the bits of n symbols that do not fill a byte
TrailingBits(n) == (6 * n) % 8

\* BASE64.encode: the standard alphabet, padded to a multiple of four symbols
EncodeBase64(sextets) ==
    [i \in 1..Len(sextets) |-> StdSymbol(sextets[i])]
    \o Repeat(Padding, (4 - (Len(sextets) % 4)) % 4)

\* BASE64URL_NOPAD.decode: every symbol must belong to the URL-safe alphabet
\* (the padding character does not), the length must be one that whole bytes
\* give, and the trailing bits must be zero
DecodeBase64UrlNopad(chars) ==
    IF /\ \A c \in Range(chars) : \E v \in Sextets : UrlSymbol(v) = c
       /\ Len(chars) % 4 # 1
    THEN LET sextets == [i \in 1..Len(chars) |->
                            CHOOSE v \in Sextets : UrlSymbol(v) = chars[i]] IN
         IF sextets # <<>> /\ TrailingBits(Len(chars)) # 0
               /\ sextets[Len(sextets)] % (2 ^ TrailingBits(Len(chars))) # 0
         THEN Failed ELSE Done(sextets)
    ELSE Failed

\* Signature::from_bytes: the bytes of a signature, given by their sextets
\* (the range checks on r, s and the recovery id are left out)
SignatureFromBytes(sextets) ==
    IF (6 * Len(sextets)) \div 8 = SignatureBytes THEN Done(sextets) ELSE Failed

\* the text of a key: BASE32_NOPAD of its SEC1 bytes, compressed ("c") or
\* uncompressed ("u"); to_bytes gives the compressed form
EncodeKey(k) == <<"c", k>>
DecodeKey(chars) ==
    IF Len(chars) = 2 /\ chars[1] \in {"c", "u"} /\ chars[2] \in Keys
    THEN Done(chars[2]) ELSE Failed

\* Enr::from_str and Enr::to_base64 (the enr crate): the text is the prefix
\* and the payload in URL-safe base64
ParseEnr(s) ==
    IF s # <<>> /\ Head(s) = ENR_PREFIX /\ DecodeBase64UrlNopad(Tail(s)).ok /\ Tail(s) # <<>>
    THEN Done(DecodeBase64UrlNopad(Tail(s)).val) ELSE Failed
EnrToBase64(record) == <<ENR_PREFIX>> \o [i \in 1..Len(record) |-> UrlSymbol(record[i])]

\* one "key=value" entry of a root text: the parsed value
RootEntry(entry) ==
    CASE Head(entry) = "e=" -> ParseHash(Tail(entry))
      [] Head(entry) = "l=" -> ParseHash(Tail(entry))
      [] Head(entry) = "seq=" -> ParseUsize(Tail(entry))
      [] Head(entry) = "sig=" ->
            LET v == DecodeBase64UrlNopad(Tail(entry)) IN
            IF v.ok THEN SignatureFromBytes(v.val) ELSE Failed
      [] OTHER -> Failed

\* the value the loop leaves in the variable of a key: that of its last
\* entry, None when there is no such entry
RootField(entries, key) ==
    LET at == {i \in 1..Len(entries) : Head(entries[i]) = key} IN
    IF at = {} THEN Failed
    ELSE RootEntry(entries[CHOOSE i \in at : \A j \in at : j <= i])

\* from_str, the enrtree-root:v1 arm
ParseRoot(rest) ==
    LET entries == SplitWhitespace(Trim(rest))
        e == RootField(entries, "e=")
        l == RootField(entries, "l=")
        seq == RootField(entries, "seq=")
        sig == RootField(entries, "sig=")
    IN  IF /\ \A i \in 1..Len(entries) : RootEntry(entries[i]).ok
           /\ e.ok /\ l.ok /\ seq.ok /\ sig.ok
        THEN Done([Rec("Root") EXCEPT !.enr_root = e.val, !.link_root = l.val,
                                       !.sequence = seq.val, !.signature = sig.val])
        ELSE Failed

\* from_str, the enrtree:// arm
ParseLink(rest) ==
    LET it == Split(rest, "@")
        public_key == DecodeKey(it[1])
    IN  IF public_key.ok /\ Len(it) >= 2
        THEN Done([Rec("Link") EXCEPT !.public_key = public_key.val, !.domain = it[2]])
        ELSE Failed

\* from_str, the enrtree-branch: arm
ParseBranch(rest) ==
    LET tokens == Split(Trim(rest), ",") IN
    IF \A i \in 1..Len(tokens) : ParseHash(tokens[i]).ok
    THEN Done([Rec("Branch") EXCEPT
                  !.children = {tokens[i] : i \in {j \in 1..Len(tokens) : tokens[j] # <<>>}}])
    ELSE Failed

\* DnsRecord::from_str
from_str(s) ==
    IF s = <<>> THEN Failed
    ELSE CASE Head(s) = ROOT_PREFIX -> ParseRoot(Tail(s))
           [] Head(s) = LINK_PREFIX -> ParseLink(Tail(s))
           [] Head(s) = BRANCH_PREFIX -> ParseBranch(Tail(s))
           [] Head(s) = ENR_PREFIX ->
                 IF ParseEnr(s).ok
                 THEN Done([Rec("Enr") EXCEPT !.record = ParseEnr(s).val])
                 ELSE Failed
           [] OTHER -> Failed

\* Display of UnsignedRoot and of RootRecord, symbol by symbol
DisplayUnsignedRoot(r) ==
    <<ROOT_PREFIX, " ", "e=">> \o r.enr_root \o <<" ", "l=">> \o r.link_root
    \o <<" ", "seq=">> \o FormatUsize(r.sequence)

DisplayRootRecord(r) ==
    DisplayUnsignedRoot(r) \o <<" ", "sig=">> \o EncodeBase64(r.signature)

\* the orders in which a HashSet may hand out its elements
Orders(set) ==
    {o \in [1..Cardinality(set) -> set] : \A i, j \in DOMAIN o : o[i] = o[j] => i = j}

\* Display of DnsRecord; order is the iteration order of the children
DisplayDnsRecord(r, order) ==
    CASE r.type = "Root" -> DisplayRootRecord(r)
      [] r.type = "Link" -> <<LINK_PREFIX>> \o EncodeKey(r.public_key) \o <<"@">> \o r.domain
      [] r.type = "Branch" -> <<BRANCH_PREFIX>> \o Join(order, ",")
      [] r.type = "Enr" -> EnrToBase64(r.record)

----------------------------------------------------------------------------
(* from_str and Display applied to texts: parse, format, parse again *)

\* the tokens of the branch texts: empty, short, of the length of a hash,
\* one longer
BranchTokens ==
    {Repeat(c, n) : c \in {"A", "B"},
                    n \in {0, 1, BASE32_HASH_LEN, BASE32_HASH_LEN + 1}}

BranchTexts ==
    {<<BRANCH_PREFIX>> \o Join(tokens, ",") :
        tokens \in UNION {[1..n -> BranchTokens] : n \in 0..MaxTokens}}

\* the sig values of the root texts: signatures in URL-safe base64 without
\* padding, and texts that are too short, not canonical, or padded
SigTexts ==
    {<<c>> \o Repeat("A", SignatureSymbols - 1) : c \in {"A", "E", "-", "_"}}
    \cup {Repeat("A", SignatureSymbols - 1),
          Repeat("A", SignatureSymbols - 1) \o <<"-">>,
          Repeat("A", SignatureSymbols) \o <<Padding>>}

SeqTexts == {<<"1">>, <<"1", "0">>, <<"+", "2">>, <<>>}

RootTexts ==
    {<<ROOT_PREFIX, " ", "e=", "A", " ", "l=", "B", " ", "seq=">> \o seq
        \o <<" ", "sig=">> \o sig : seq \in SeqTexts, sig \in SigTexts}

LinkTexts ==
    {<<LINK_PREFIX>> \o key \o rest :
        key \in {<<form, k>> : form \in {"c", "u"}, k \in Keys} \cup {<<"x">>},
        rest \in {<<>>, <<"@">>, <<"@", "h", "1">>, <<"@", "h", "@", "1">>}}

EnrTexts ==
    {<<ENR_PREFIX>> \o payload :
        payload \in {<<>>, <<"E", "A">>, <<"A", "E">>, <<"-", "_", "A", "A">>, <<Padding>>}}

Texts == RootTexts \cup LinkTexts \cup BranchTexts \cup EnrTexts \cup {<<>>, <<"x">>}

CodecInit ==
    /\ probe \in [stage : {"text"}, text : Texts, rec : {Failed},
                  text2 : {<<>>}, rec2 : {Failed}]
    /\ cfg = [public_key |-> NoKey, seen_sequence |-> NoSeq,
              remote_whitelist |-> NoWhitelist]
    /\ zone = <<>>
    /\ trees = <<>>
    /\ tasks = <<>>
    /\ chans = <<>>
    /\ out = <<>>
    /\ consumer = "reading"

\* text.parse::<DnsRecord>()
ParseCall ==
    /\ probe.stage = "text"
    /\ probe' = [probe EXCEPT !.stage = "parsed", !.rec = from_str(probe.text)]
    /\ UNCHANGED <<cfg, zone, trees, tasks, chans, out, consumer>>

\* record.to_string(), the set of children iterated in any order
FormatCall ==
    /\ probe.stage = "parsed"
    /\ probe.rec.ok
    /\ \E order \in Orders(probe.rec.val.children) :
          probe' = [probe EXCEPT !.stage = "formatted",
                                 !.text2 = DisplayDnsRecord(probe.rec.val, order)]
    /\ UNCHANGED <<cfg, zone, trees, tasks, chans, out, consumer>>

\* the formatted text parsed again
ReparseCall ==
    /\ probe.stage = "formatted"
    /\ probe' = [probe EXCEPT !.stage = "reparsed", !.rec2 = from_str(probe.text2)]
    /\ UNCHANGED <<cfg, zone, trees, tasks, chans, out, consumer>>

CodecNext == ParseCall \/ FormatCall \/ ReparseCall

CodecSpec == CodecInit /\ [][CodecNext]_vars

----------------------------------------------------------------------------
(* The backends: get_record of backend/trust_dns.rs and backend/memory.rs *)

\* the number of TXT records of an answer, of character-strings of a record
MaxTxt == 2

\* a character-string of a TXT record: bytes that are UTF-8 or not, and the
\* text they spell
Payload(utf8, text) == [utf8 |-> utf8, text |-> text]

\* a record that parses, a text that does not, bytes that are no UTF-8
Payloads ==
    {Payload(TRUE, <<BRANCH_PREFIX, "A", ",", "B">>),
     Payload(TRUE, <<"x">>),
     Payload(FALSE, <<BRANCH_PREFIX, "A">>)}

\* the outcomes of txt_lookup: an error of some kind (NoRecordsFound is what
\* the resolver reports for NXDOMAIN and for an answer without records), or
\* an answer, a sequence of TXT records, each a sequence of strings
LookupError(kind) == [ok |-> FALSE, kind |-> kind, answer |-> <<>>]
LookupAnswer(records) == [ok |-> TRUE, kind |-> "none", answer |-> records]

ErrorKinds == {"NoRecordsFound", "Timeout", "Proto"}

TxtRecords == UNION {[1..n -> Payloads] : n \in 0..MaxTxt}

Lookups ==
    {LookupError(k) : k \in ErrorKinds}
    \cup {LookupAnswer(a) : a \in UNION {[1..n -> TxtRecords] : n \in 0..MaxTxt}}

\* Result<Option<DnsRecord>, StdError>
Absent == [kind |-> "None", rec |-> NoRecord]
Failure == [kind |-> "Err", rec |-> NoRecord]
Present(r) == [kind |-> "Some", rec |-> r]

\* String::from_utf8(bytes)?.parse()?
ParsePayload(payload) ==
    IF payload.utf8 /\ from_str(payload.text).ok
    THEN Present(from_str(payload.text).val) ELSE Failure

\* get_record of AsyncResolver: NoRecordsFound is None, any other error is
\* returned; of an answer, the first string of the first record is parsed,
\* and an answer or a first record with nothing in it is an error
trust_dns_get_record(lookup) ==
    IF ~lookup.ok
    THEN IF lookup.kind = "NoRecordsFound" THEN Absent ELSE Failure
    ELSE IF lookup.answer = <<>> THEN Failure
    ELSE IF Head(lookup.answer) = <<>> THEN Failure
    ELSE ParsePayload(Head(Head(lookup.answer)))

\* the HashMap given to the in-memory backend: the name is stored with a
\* text, or not stored
Stored(payload) == [stored |-> TRUE, payload |-> payload]
NotStored == [stored |-> FALSE, payload |-> Payload(TRUE, <<>>)]

Entries == {NotStored} \cup {Stored(pl) : pl \in {q \in Payloads : q.utf8}}

\* get_record of HashMap<(String, String), String>: a name that is not
\* stored is an error, a stored text is parsed
memory_get_record(entry) ==
    IF ~entry.stored THEN Failure
    ELSE IF from_str(entry.payload.text).ok
         THEN Present(from_str(entry.payload.text).val) ELSE Failure

BackendInit ==
    /\ probe \in [backend : {"trust_dns"}, lookup : Lookups, entry : {NotStored},
                  called : {FALSE}, result : {Failure}]
             \cup [backend : {"memory"}, lookup : {LookupError("none")},
                   entry : Entries, called : {FALSE}, result : {Failure}]
    /\ cfg = [public_key |-> NoKey, seen_sequence |-> NoSeq,
              remote_whitelist |-> NoWhitelist]
    /\ zone = <<>>
    /\ trees = <<>>
    /\ tasks = <<>>
    /\ chans = <<>>
    /\ out = <<>>
    /\ consumer = "reading"

\* resolver.get_record(fqdn)
TrustDnsCall ==
    /\ probe.backend = "trust_dns"
    /\ ~probe.called
    /\ probe' = [probe EXCEPT !.called = TRUE,
                              !.result = trust_dns_get_record(probe.lookup)]
    /\ UNCHANGED <<cfg, zone, trees, tasks, chans, out, consumer>>

\* map.get_record(subdomain, domain)
MemoryCall ==
    /\ probe.backend = "memory"
    /\ ~probe.called
    /\ probe' = [probe EXCEPT !.called = TRUE,
                              !.result = memory_get_record(probe.entry)]
    /\ UNCHANGED <<cfg, zone, trees, tasks, chans, out, consumer>>

BackendNext == TrustDnsCall \/ MemoryCall

BackendSpec == BackendInit /\ [][BackendNext]_vars

----------------------------------------------------------------------------
(* Vocabulary of the properties *)

Top == <<>>

\* the answer the stream of query has received for the entry host
TopAnswered == trees[Top].pc \notin {"init", "fetching"} /\ RootName(EntryHost) \in DOMAIN zone
TopRoot == zone[RootName(EntryHost)]

\* r carries a signature made by the key pair of pk over its UnsignedRoot text
SignedBy(r, pk) ==
    r.signature.key = pk /\ r.signature.text = UnsignedRootToString(r)

Items == {out[i] : i \in 1..Len(out)}
EnrItems == {x \in Items : x.ok}
ErrorItems == {x \in Items : ~x.ok}

\* a get_record for a child name has been issued
ChildFetched == \E t \in DOMAIN tasks : tasks[t].asked

IsPrefix(s, t) == Len(s) <= Len(t) /\ SubSeq(t, 1, Len(s)) = s

\* C1: nothing is fetched below the entry host and no ENR is yielded unless
\* the entry host's record is a Root that is signed by expected_pk (when one
\* is supplied) and newer than seen_sequence (when one is configured)
C1_RootFirst ==
    (ChildFetched \/ EnrItems # {} \/ tasks # <<>>) =>
        /\ TopAnswered
        /\ TopRoot.type = "Root"
        /\ cfg.public_key # NoKey => SignedBy(TopRoot, cfg.public_key)
        /\ cfg.seen_sequence # NoSeq => TopRoot.sequence > cfg.seen_sequence

C1_Witness ==
    /\ cfg.seen_sequence # NoSeq
    /\ EnrItems # {}
    /\ ChildFetched

\* C2 as claimed: once the root is accepted both branch resolutions are
\* launched, so the ENR one exists whenever the link one is being drained
C2_BothLaunched ==
    trees[Top].pc = "link" => <<Top, "enr">> \in DOMAIN chans

\* C3 as claimed: a consumer that has read the stream to its end has been
\* given the ENR of every Enr leaf that was resolved in an ENR subtree, and
\* the ENR subtree has been fetched, whatever failed elsewhere
C3_SiblingsSurvive ==
    (consumer = "ended" /\ <<Top, "link">> \in DOMAIN chans) =>
        /\ \E t \in DOMAIN tasks : tasks[t].chan = <<Top, "enr">> /\ tasks[t].asked
        /\ \A t \in DOMAIN tasks :
              Dispatch(tasks[t].kind, tasks[t].record) = "emit" =>
                  OkItem(tasks[t].record.record) \in Items

\* the record of the entry host is present but unacceptable: not a Root, or
\* a Root that expected_pk did not sign
TopRejected ==
    /\ TopAnswered
    /\ \/ TopRoot.type \notin {"None", "Err", "Root"}
       \/ /\ TopRoot.type = "Root"
          /\ cfg.public_key # NoKey
          /\ ~SignedBy(TopRoot, cfg.public_key)

\* C4: a present entry record that is no Root, or a Root that expected_pk
\* did not sign, gives exactly one item, a failure; no ENR, no child fetch,
\* and the stream is over
C4_RootRejected ==
    TopRejected =>
        /\ Len(out) = 1
        /\ ~out[1].ok
        /\ out[1].err \in {"Expected root", "Public key does not match"}
        /\ tasks = <<>>
        /\ trees[Top].pc \in {"failed", "done", "dropped"}
        /\ chans = <<>>

C4_Witness ==
    /\ TopRejected
    /\ TopRoot.type = "Root"
    /\ consumer = "ended"
    /\ out = <<ErrItem("Public key does not match")>>

\* C5: "no record" for the entry host completes the stream with no item
\* and no child fetch
C5_RootAbsent ==
    (TopAnswered /\ TopRoot.type = "None") =>
        /\ out = <<>>
        /\ tasks = <<>>
        /\ consumer = "ended"
        /\ trees[Top].pc = "done"

C5_Witness ==
    /\ TopAnswered
    /\ TopRoot.type = "None"
    /\ consumer = "ended"

\* the entry host's Root is not newer than the configured seen_sequence
TopStale ==
    /\ TopAnswered
    /\ TopRoot.type = "Root"
    /\ cfg.seen_sequence # NoSeq
    /\ TopRoot.sequence <= cfg.seen_sequence

LinkLeaf(t) == tasks[t].record.type = "Link" /\ tasks[t].kind.tag = "Link"

\* the configured whitelist holds (domain, public_key) of the link
Listed(t) ==
    <<tasks[t].record.domain, tasks[t].record.public_key>> \in cfg.remote_whitelist.map

\* C7: with a whitelist configured, a Link leaf that it does not list (at
\* any depth) starts no walk of the linked host, has nothing beneath it and
\* sends neither an ENR nor a failure
C7_WhitelistGating ==
    \A t \in DOMAIN tasks :
        (LinkLeaf(t) /\ cfg.remote_whitelist.present /\ ~Listed(t)) =>
            /\ t \notin DOMAIN trees
            /\ \A u \in DOMAIN tasks : IsPrefix(t, u) => u = t
            /\ tasks[t].pending = NoItem
            /\ tasks[t].pc = "done"
            /\ (trees[Top].pc = "link" /\ Len(t) = 1) => out = <<>>

\* a link whose domain is listed with another key is skipped and the stream
\* goes on to yield ENRs
C7_Witness ==
    /\ \E t \in DOMAIN tasks :
          /\ LinkLeaf(t)
          /\ cfg.remote_whitelist.map # {}
          /\ ~Listed(t)
    /\ EnrItems # {}
    /\ ErrorItems = {}

Misplaced(t) ==
    /\ tasks[t].record.type \in {"Root", "Link", "Enr"}
    /\ Dispatch(tasks[t].kind, tasks[t].record) \in ProtocolErrors

\* C9 as claimed: whenever a tree served without backend failures holds a
\* misplaced record, a consumer that has read the stream to its end has
\* been given a protocol error
C9_KindDiscipline ==
    (/\ consumer = "ended"
     /\ \A n \in DOMAIN zone : zone[n].type # "Err"
     /\ \E t \in DOMAIN tasks : Misplaced(t)) =>
        \E x \in ErrorItems : x.err \in ProtocolErrors \cup {"Expected root"}

\* C10 as claimed: no task spawned after the consumer dropped the stream
\* issues its get_record
C10_NoFetchAfterDrop ==
    \A t \in DOMAIN tasks : tasks[t].late => ~tasks[t].asked

\* the stream of query has ended, no task is left running and every channel
\* has lost all its senders
Quiescent ==
    /\ consumer = "ended"
    /\ \A t \in DOMAIN tasks : ~LiveTask(t)
    /\ \A c \in DOMAIN chans : Senders(c) = {}

\* C11: under a backend that answers and a consumer that keeps reading, the
\* walk is never stuck before its end (whatever the channels hold, some task,
\* the backend or the consumer can take a step), and it reaches and stays in
\* the state where the stream has ended, every task is over (run to its
\* completion when the stream carried no failure) and every channel is closed
C11_DeadlockFreeTermination ==
    /\ [](~Quiescent => ENABLED <<LiveNext>>_vars)
    /\ <>[](Quiescent /\ (ErrorItems = {} => \A t \in DOMAIN tasks : tasks[t].pc = "done"))

\* a walk over two levels of branches that delivered two ENRs through the
\* channels of capacity one and ended with every task complete
C11_Witness ==
    /\ Quiescent
    /\ Len(out) >= 2
    /\ ErrorItems = {}
    /\ \E t \in DOMAIN tasks : Len(t) >= 3
    /\ \A t \in DOMAIN tasks : tasks[t].pc = "done"

\* the root that tree p was given for its host
RootOf(p) == zone[RootName(trees[p].host)]

\* tree p has its answer, a Root signed by the key the tree expects (if any)
\* and newer than the sequence it has seen (if any)
WellRooted(p) ==
    /\ trees[p].pc # "fetching"
    /\ RootName(trees[p].host) \in DOMAIN zone
    /\ RootOf(p).type = "Root"
    /\ trees[p].public_key # NoKey => SignedBy(RootOf(p), trees[p].public_key)
    /\ trees[p].seen_sequence # NoSeq => RootOf(p).sequence > trees[p].seen_sequence

\* everything the walk has met is well formed: no lookup failed or came back
\* empty, every tree is well rooted, every record is of the kind its
\* position allows
ErrorFree ==
    /\ \A n \in DOMAIN zone : zone[n].type \notin {"Err", "None"}
    /\ \A p \in DOMAIN trees : WellRooted(p)
    /\ \A t \in DOMAIN tasks : ~Misplaced(t)

\* no record is referenced by two parents
UniqueParents ==
    \A t, u \in DOMAIN tasks :
        (tasks[t].host = tasks[u].host /\ tasks[t].subdomain = tasks[u].subdomain)
            => t = u

\* how many times the stream of query yielded item x
Yielded(x) == Cardinality({i \in 1..Len(out) : out[i] = x})

\* the tasks that resolved an Enr leaf of an ENR subtree
Leaves == {t \in DOMAIN tasks : Dispatch(tasks[t].kind, tasks[t].record) = "emit"}

\* every tree has walked both its subtrees to the end
FullyWalked ==
    /\ \A p \in DOMAIN trees :
          <<p, "link">> \in DOMAIN chans /\ <<p, "enr">> \in DOMAIN chans
    /\ \A t \in DOMAIN tasks : tasks[t].asked /\ tasks[t].pc = "done"

\* C12 as claimed, for a query without expected key: when the consumer has
\* read an error-free tree of unique parents to its end, every tree (the
\* entry host's and that of every followed link) has been walked in full,
\* the stream carried no failure, and what it yielded is each resolved Enr
\* leaf exactly once
C12_ExactlyTheLeaves ==
    (consumer = "ended" /\ cfg.public_key = NoKey /\ ErrorFree /\ UniqueParents) =>
        /\ ErrorItems = {}
        /\ FullyWalked
        /\ \A t \in Leaves : Yielded(OkItem(tasks[t].record.record)) = 1
        /\ Len(out) = Cardinality(Leaves)

\* the same statement for the walks that followed no link (it holds)
ExactWithoutLinks ==
    (consumer = "ended" /\ cfg.public_key = NoKey /\ ErrorFree /\ UniqueParents /\ DOMAIN trees = {Top}) =>
        /\ ErrorItems = {}
        /\ FullyWalked
        /\ \A t \in Leaves : Yielded(OkItem(tasks[t].record.record)) = 1
        /\ Len(out) = Cardinality(Leaves)

\* task t was answered "no record" for its child
EmptyChild(t) == tasks[t].record.type = "None"

\* t and u are children of one Branch record
Siblings(t, u) == t # u /\ tasks[t].chan = tasks[u].chan

\* nothing that makes the walk fail has happened: no lookup failed, no root
\* was rejected, no record is of the wrong kind for its position
NoFailureCause ==
    /\ \A n \in DOMAIN zone : zone[n].type # "Err"
    /\ \A p \in DOMAIN trees :
          (trees[p].pc # "fetching" /\ RootName(trees[p].host) \in DOMAIN zone) =>
              RootOutcome(trees[p], RootOf(p)) \in {"accept", "empty", "stale"}
    /\ \A t \in DOMAIN tasks : ~Misplaced(t)

\* C13: a child answered "no record" ends at once with nothing sent, nothing
\* beneath it and no walk started; and when the consumer has read to the end
\* a walk in which nothing else went wrong, the stream carried no failure,
\* every child was fetched and every resolved Enr leaf (the siblings of the
\* empty children among them) was yielded
C13_EmptyChildSkipped ==
    /\ \A t \in DOMAIN tasks :
          EmptyChild(t) =>
              /\ tasks[t].pending = NoItem
              /\ tasks[t].pc = "done"
              /\ t \notin DOMAIN trees
              /\ \A u \in DOMAIN tasks : IsPrefix(t, u) => u = t
    /\ (consumer = "ended" /\ NoFailureCause) =>
          /\ ErrorItems = {}
          /\ \A t \in DOMAIN tasks : tasks[t].asked /\ tasks[t].pc = "done"
          /\ \A t \in Leaves : Yielded(OkItem(tasks[t].record.record)) >= 1

\* an empty child whose sibling's ENR was yielded by a stream that ended
\* without failure
C13_Witness ==
    /\ consumer = "ended"
    /\ ErrorItems = {}
    /\ \E t, u \in DOMAIN tasks :
          /\ Siblings(t, u)
          /\ EmptyChild(t)
          /\ u \in Leaves
          /\ OkItem(tasks[u].record.record) \in Items

\* the lookup issued by task t failed
FetchFailed(t) == tasks[t].record.type = "Err"

\* C14: when a lookup has failed, for a child at any depth or for the root of
\* a linked host, a consumer that has read the stream to its end has been
\* given a failure
C14_BackendErrorSurfaces ==
    (/\ consumer = "ended"
     /\ \/ \E t \in DOMAIN tasks : FetchFailed(t)
        \/ \E n \in DOMAIN zone : zone[n].type = "Err") =>
        ErrorItems # {}

\* the lookup of a grandchild of the ENR subtree's root failed, below two
\* nested branches, and the consumer was given the backend's failure
C14_Witness ==
    /\ consumer = "ended"
    /\ \E t \in DOMAIN tasks :
          FetchFailed(t) /\ Len(t) >= 3 /\ tasks[t].kind = KindEnr
    /\ out = <<ErrItem("backend")>>

\* C15 as claimed: verify(root, pk) is true exactly when the signature of
\* the root was made by the key pair of pk over the UnsignedRoot text of
\* the root (the text without the sig field)
C15_VerifyIffSigned ==
    probe.called => (probe.result <=> SignedBy(probe.root, probe.pk))

\* what the code computes: verify accepts no root of the family, the honestly
\* signed ones included
VerifyNeverAccepts == probe.called => ~probe.result

\* the task spawned for child c of the Branch record resolved by task b
Child(b, c) == Append(b, c)

\* task b resolved a Branch record
BranchTask(b) == tasks[b].record.type = "Branch"

\* C16: once a Branch record is resolved there is one task per child, and a
\* child's task that has not yet issued its get_record can do so whatever
\* its siblings are doing (none waits for another child's answer)
C16_ParallelFetch ==
    \A b \in DOMAIN tasks :
        BranchTask(b) =>
            \A c \in tasks[b].record.children :
                /\ Child(b, c) \in DOMAIN tasks
                /\ tasks[Child(b, c)].pc = "spawned" => ENABLED TaskFetch(Child(b, c))

\* the fetches of all the children of a Branch record of two children are
\* outstanding at once
C16_Witness ==
    \E b \in DOMAIN tasks :
        /\ BranchTask(b)
        /\ Cardinality(tasks[b].record.children) >= 2
        /\ \A c \in tasks[b].record.children : tasks[Child(b, c)].pc = "fetching"

\* the trees of followed links
LinkedTrees == DOMAIN trees \ {Top}

\* tree p has been given, for its host, a Root that the key of its link
\* signed
HonestLinkedRoot(p) ==
    /\ trees[p].pc # "fetching"
    /\ RootName(trees[p].host) \in DOMAIN zone
    /\ RootOf(p).type = "Root"
    /\ SignedBy(RootOf(p), trees[p].public_key)

\* C17 as claimed: the tree of a followed link whose honestly signed root is
\* not newer than the configured seen_sequence is walked all the same (its
\* subtrees are launched and it sends no failure)
C17_LinkedTreeWalkedDespiteSeen ==
    \A p \in LinkedTrees :
        (/\ cfg.seen_sequence # NoSeq
         /\ HonestLinkedRoot(p)
         /\ RootOf(p).sequence <= cfg.seen_sequence) =>
            /\ <<p, "link">> \in DOMAIN chans
            /\ ~(tasks[p].pending # NoItem /\ ~tasks[p].pending.ok)

\* what the code does with seen_sequence: the tree of a link is started
\* without one, and never ends as already seen
LinkedTreesUngated ==
    \A p \in LinkedTrees : trees[p].seen_sequence = NoSeq

\* the tasks that reached the same record as leaf t, each by its own path
SameLeaf(t) ==
    {u \in Leaves : tasks[u].host = tasks[t].host /\ tasks[u].subdomain = tasks[t].subdomain}

\* what the code does for the records of one host: every parent that lists
\* a child gets its own task for it, whether or not the name was resolved
\* before, and every followed link its own lookup of the linked root; when
\* the consumer has read to the end a stream that carried no failure, every
\* task has issued its get_record and each ENR was yielded once per path
\* that reached its record
NoVisitedSet ==
    /\ \A b \in DOMAIN tasks :
          BranchTask(b) => \A c \in tasks[b].record.children : Child(b, c) \in DOMAIN tasks
    /\ \A t \in DOMAIN tasks :
          (LinkLeaf(t) /\ Dispatch(tasks[t].kind, tasks[t].record) = "follow") =>
              t \in DOMAIN trees
    /\ (consumer = "ended" /\ ErrorItems = {}) =>
          /\ \A t \in DOMAIN tasks : tasks[t].asked
          /\ \A t \in Leaves :
                Yielded(OkItem(tasks[t].record.record)) = Cardinality(SameLeaf(t))

\* an Enr record listed by two Branch records was fetched by two tasks and
\* its ENR yielded twice
TwicePerTwoPaths ==
    /\ consumer = "ended"
    /\ ErrorItems = {}
    /\ \E t \in Leaves :
          /\ Cardinality(SameLeaf(t)) = 2
          /\ \A u \in SameLeaf(t) : tasks[u].asked
          /\ Yielded(OkItem(tasks[t].record.record)) = 2

\* C18 as claimed, for a linked host: when two links to one host, whose
\* root the key of the links signed, have both been followed, the host is
\* walked once per link (each walk launches its subtrees, whose ENRs are
\* then yielded once per walk) and neither walk gives a failure
C18_LinkedHostPerPath ==
    \A p, q \in LinkedTrees :
        (/\ p # q
         /\ trees[p].host = trees[q].host
         /\ HonestLinkedRoot(p)
         /\ HonestLinkedRoot(q)) =>
            /\ <<p, "enr">> \in DOMAIN chans \/ trees[p].pc = "link"
            /\ <<q, "enr">> \in DOMAIN chans \/ trees[q].pc = "link"
            /\ ErrorItems = {}

\* C19: the stream of query yields at most one failure and it is its last
\* item: nothing, ENR or failure, comes after it, whatever the tasks still
\* running hold or send
C19_ErrorIsLast ==
    /\ \A i \in 1..Len(out) : ~out[i].ok => i = Len(out)
    /\ (ErrorItems # {} /\ consumer = "ended") => trees[Top].pc = "done"

\* the stream yielded a failure and ended, and the ENR of a leaf that a
\* sibling task had resolved was never yielded
C19_Witness ==
    /\ consumer = "ended"
    /\ out # <<>>
    /\ ~Last(out).ok
    /\ \E t \in Leaves : OkItem(tasks[t].record.record) \notin Items

\* the tree of a followed link has been given a Root that the key of the
\* link did not sign
LinkedRootForged(p) ==
    /\ trees[p].pc # "fetching"
    /\ RootName(trees[p].host) \in DOMAIN zone
    /\ RootOf(p).type = "Root"
    /\ ~SignedBy(RootOf(p), tasks[p].record.public_key)

\* C20: the tree of a followed link expects the key of its Link record; when
\* the root of the linked host was not signed by that key, nothing is
\* fetched below that root (so no ENR of the linked tree exists to yield),
\* the Link task forwards or has forwarded one failure and no ENR, and a
\* consumer that has read to the end has been given a failure
C20_LinkedRootVerified ==
    \A p \in LinkedTrees :
        /\ trees[p].public_key = tasks[p].record.public_key
        /\ trees[p].host = tasks[p].record.domain
        /\ LinkedRootForged(p) =>
              /\ \A u \in DOMAIN tasks : IsPrefix(p, u) => u = p
              /\ \A c \in DOMAIN chans : c[1] # p
              /\ trees[p].pc = "done"
              /\ tasks[p].pending \in {NoItem, ErrItem("Public key does not match")}
              /\ tasks[p].pc = "final" => tasks[p].pending # NoItem
              /\ consumer = "ended" => (ErrorItems # {} /\ EnrItems = {})

\* a link carrying a key that did not sign the linked root was followed and
\* the consumer was given the verification failure and nothing else
C20_Witness ==
    /\ consumer = "ended"
    /\ out = <<ErrItem("Public key does not match")>>
    /\ \E p \in LinkedTrees :
          /\ LinkedRootForged(p)
          /\ RootOf(p).signature.key # tasks[p].record.public_key

\* a text was parsed, formatted and parsed again
RoundTripped == probe.stage = "reparsed"

\* C21 as claimed: the text formatted from a record that the parser
\* produced parses, and to the same record
C21_RoundTrip ==
    RoundTripped => (probe.rec2.ok /\ probe.rec2.val = probe.rec.val)

\* what the code does: the round trip holds for Link, Branch and Enr records
\* and fails to parse for every Root record
RoundTripButRoot ==
    RoundTripped =>
        IF probe.rec.val.type = "Root" THEN ~probe.rec2.ok
        ELSE probe.rec2.ok /\ probe.rec2.val = probe.rec.val

\* the text given to the parser is an enrtree-branch: record, and has been
\* parsed
BranchParsed ==
    /\ probe.stage # "text"
    /\ probe.text # <<>>
    /\ Head(probe.text) = BRANCH_PREFIX

\* the non-empty tokens between the commas of the text
TextTokens == {t \in Range(Split(Tail(probe.text), ",")) : t # <<>>}

\* C22 as claimed: parsing an enrtree-branch: record succeeds exactly when
\* every non-empty token between the commas has the 26 characters of a
\* Base32Hash, and then gives the set of those tokens
C22_BranchTokensAreHashes ==
    BranchParsed =>
        /\ probe.rec.ok <=> \A t \in TextTokens : Len(t) = BASE32_HASH_LEN
        /\ probe.rec.ok => probe.rec.val.children = TextTokens

\* what the code does: a token fails only when it is longer than 26; empty
\* tokens are dropped and duplicates collapse
BranchTokensFit ==
    BranchParsed =>
        /\ probe.rec.ok <=> \A t \in TextTokens : Len(t) <= BASE32_HASH_LEN
        /\ probe.rec.ok => probe.rec.val.children = TextTokens

\* the name asked for has no TXT data: the lookup reports NoRecordsFound
\* (NXDOMAIN included), or succeeds with no record or with a first record
\* that holds no string, or the name is not stored in the map
NoTxtData ==
    IF probe.backend = "trust_dns"
    THEN \/ ~probe.lookup.ok /\ probe.lookup.kind = "NoRecordsFound"
         \/ probe.lookup.ok /\ probe.lookup.answer = <<>>
         \/ probe.lookup.ok /\ probe.lookup.answer # <<>>
                /\ Head(probe.lookup.answer) = <<>>
    ELSE ~probe.entry.stored

\* the payload that get_record parses
AskedPayload ==
    IF probe.backend = "trust_dns"
    THEN Head(Head(probe.lookup.answer)) ELSE probe.entry.payload

\* the lookup failed otherwise, or the payload does not parse
OtherFailure ==
    /\ ~NoTxtData
    /\ \/ probe.backend = "trust_dns" /\ ~probe.lookup.ok
       \/ ~AskedPayload.utf8
       \/ ~from_str(AskedPayload.text).ok

\* C23 as claimed: get_record returns "no record" exactly when the name has
\* no TXT data, and a failure exactly for every other DNS error and for a
\* payload that does not parse
C23_AbsentIffNoTxtData ==
    probe.called =>
        /\ probe.result.kind = "None" <=> NoTxtData
        /\ probe.result.kind = "Err" <=> OtherFailure

\* what the code does: "no record" only for NoRecordsFound; an empty answer,
\* an empty first record and a name that is not stored are failures
AbsentOnlyNoRecordsFound ==
    probe.called =>
        /\ probe.result.kind = "None" <=>
              (probe.backend = "trust_dns" /\ ~probe.lookup.ok
                  /\ probe.lookup.kind = "NoRecordsFound")
        /\ (NoTxtData /\ probe.result.kind # "None") => probe.result.kind = "Err"
        /\ OtherFailure => probe.result.kind = "Err"

====
